---- MODULE Spec2Model ----
(***************************************************************************)
(* A model of the FAT32 driver of src/src/fat32.c: the block device seen   *)
(* cluster by cluster, the cached FileAllocationTable, the scratch         *)
(* directory table, and the operations create_fat32,                       *)
(* initialize_filesystem_fat32, read_directory, read, write and delete.    *)
(*                                                                         *)
(* Geometry is scaled down: the cluster map has MapSize entries, a         *)
(* directory table has DirSize slots and a cluster holds ClusterSize bytes.*)
(* A cluster of the device is held as a tagged value (boot cluster, FAT    *)
(* image, directory table, payload chunk); AsTable and AsFat give what the *)
(* driver sees when it loads a cluster of one kind as another.             *)
(***************************************************************************)
EXTENDS Integers, Sequences, FiniteSets, TLC

\* ---------------------------------------------------------------- bounds
\* CLUSTER_MAP_SIZE, scaled down: cluster numbers are 0..MapSize-1.
MapSize == 5
\* Slots of one FAT32DirectoryTable (CLUSTER_SIZE / sizeof(entry)), scaled down.
DirSize == 3
\* CLUSTER_SIZE in bytes, scaled down.
ClusterSize == 2
\* Largest request.buffer_size a call is made with.
MaxSize == 3
\* Steps of a chain walk followed before it is reported as not terminating.
MaxWalk == 8
\* Calls of create_fat32 and of the CRUD operations made in one run.
MaxCalls == 3

\* ------------------------------------------------------ header constants
CLUSTER_0_VALUE == 268435440
CLUSTER_1_VALUE == 268435455
FAT32_FAT_END_OF_FILE == 268435455
FAT32_FAT_EMPTY_ENTRY == 0
FAT_CLUSTER_NUMBER == 1
ROOT_CLUSTER_NUMBER == 2
ATTR_SUBDIRECTORY == 16
UATTR_NOT_EMPTY == 170

Clusters == 0 .. (MapSize - 1)
Slots == 0 .. (DirSize - 1)

\* 8 zero bytes / 3 zero bytes.
ZeroName == ""
ZeroExt == ""

\* The name+extension keys requests are made with: all zero bytes, the name
\* create_fat32 gives the root, and an ordinary file name.
Keys == {<<ZeroName, ZeroExt>>, <<"root", ZeroExt>>, <<"d", "txt">>}

\* ------------------------------------------------------ directory entries
\* struct FAT32DirectoryEntry, with the fields the driver reads or writes.
Entry(n, e, a, ua, lo, hi, fs) ==
    [name |-> n, ext |-> e, attribute |-> a, user_attribute |-> ua,
     cluster_low |-> lo, cluster_high |-> hi, filesize |-> fs]

\* An entry of a zero-initialised table ({ 0 }).
ZeroEntry == Entry(ZeroName, ZeroExt, 0, 0, 0, 0, 0)

ZeroTable == [i \in Slots |-> ZeroEntry]

\* cluster_low | (cluster_high << 16)
EntryCluster(e) == e.cluster_low + e.cluster_high * 65536

\* init_directory_table: slot 0 describes the directory, with the parent's
\* cluster number split in two 16-bit halves.
init_directory_table(dir_table, name, parent_dir_cluster) ==
    [dir_table EXCEPT ![0] =
        [@ EXCEPT !.cluster_low = parent_dir_cluster % 65536,
                  !.cluster_high = (parent_dir_cluster \div 65536) % 65536,
                  !.user_attribute = UATTR_NOT_EMPTY,
                  !.attribute = ATTR_SUBDIRECTORY,
                  !.name = name]]

\* ------------------------------------------------------- cluster contents
BootCluster == [kind |-> "boot"]
FatCluster(map) == [kind |-> "fat", map |-> map]
DirCluster(t) == [kind |-> "dir", table |-> t]
DataCluster(b) == [kind |-> "data", data |-> b]

\* The first 32 bytes of fs_signature read as a directory entry:
\* name "Course  ", ext "   ", attribute ' ' (32).
SignatureEntry == Entry("Course  ", "   ", 32, 32, 8224, 8224, 538976288)

\* A cluster filled with byte b, read as a directory entry.
FilledEntry(b) ==
    IF b = 0 THEN ZeroEntry
    ELSE Entry("filled", "fil", b, b, b * 257, b * 257, b * 16843009)

\* The first 32 bytes of a FAT image read as a directory entry: byte 11, the
\* attribute, is the top byte of cluster_map[2].
FatEntry(map) ==
    Entry("fatimage", "fat", map[2] \div 16777216, 0, 0, 0, 0)

\* A payload chunk whose bytes are those of a directory table: a cluster of
\* request.buf is any bytes the caller chose.
ImageChunk == 3

\* The table those bytes spell: slot 0 a SUBDIRECTORY descriptor, slot 1 an
\* occupied file entry "d.txt" of one byte that starts at cluster 3, the
\* other slots zero.
ImageTable ==
    [i \in Slots |->
        CASE i = 0 -> Entry("img", ZeroExt, ATTR_SUBDIRECTORY, UATTR_NOT_EMPTY,
                            ROOT_CLUSTER_NUMBER, 0, 0)
          [] i = 1 -> Entry("d", "txt", 0, UATTR_NOT_EMPTY, 3, 0, 1)
          [] OTHER -> ZeroEntry]

\* read_clusters(&table, c, 1): the cluster's bytes seen as a directory table.
AsTable(content) ==
    CASE content.kind = "dir" -> content.table
      [] content.kind = "data" /\ content.data = ImageChunk -> ImageTable
      [] content.kind = "boot" -> [i \in Slots |-> SignatureEntry]
      [] content.kind = "fat" ->
            [i \in Slots |-> IF i = 0 THEN FatEntry(content.map) ELSE ZeroEntry]
      [] OTHER -> [i \in Slots |-> FilledEntry(content.data)]

\* read_clusters(&fat_table, c, 1): the cluster's bytes seen as a cluster map.
AsFat(content) ==
    CASE content.kind = "fat" -> content.map
      [] content.kind = "data" -> [i \in Clusters |-> content.data * 16843009]
      [] OTHER -> [i \in Clusters |-> CLUSTER_0_VALUE]

\* read_clusters(buf, c, 1): the cluster's bytes seen as payload. A cluster
\* that holds no payload chunk reads as a value no caller's chunk equals.
AsData(content) ==
    IF content.kind = "data" THEN content.data ELSE 255

VARIABLES
    storage,        \* the block device, cluster by cluster
    fat_table,      \* driver_state.fat_table.cluster_map
    dir_table_buf,  \* driver_state.dir_table_buf.table
    booted,         \* initialize_filesystem_fat32 has run since power-on
    halted,         \* a call faulted or does not return
    last,           \* the last call: operation, request and status
    out_buf,        \* the caller's buffer after the last read
    calls,          \* calls of create_fat32 and CRUD calls made so far
    created         \* history: the writes that returned 0, less the keys a
                    \* later delete of the same key and parent returned 0 for

vars == <<storage, fat_table, dir_table_buf, booted, halted, last, out_buf,
          calls, created>>

\* How a call ends: it returns a status ("ok"), or it does not return: a walk
\* left the cluster map and the machine faulted, or the walk does not end.
FAULT == "fault"
HANG == "hang"

NoCall == [op |-> "none", name |-> ZeroName, ext |-> ZeroExt,
           parent |-> 0, size |-> 0, buf |-> <<>>, end |-> "ok", status |-> 0]

\* The record of a call: `end` tells whether it returned, `status` is the
\* status it returned (0 when it did not return).
Call(op, req, end, status) ==
    [op |-> op, name |-> req.name, ext |-> req.ext,
     parent |-> req.parent_cluster_number, size |-> req.buffer_size,
     buf |-> req.buf, end |-> end, status |-> status]

\* struct FAT32DriverRequest
Request(name, ext, parent, size, buf) ==
    [name |-> name, ext |-> ext, parent_cluster_number |-> parent,
     buffer_size |-> size, buf |-> buf]

\* What memcpy(name, "root", 8) can store: the literal holds 5 bytes, and the 3
\* bytes after it are whatever the build placed there (zero, or not).
RootNames == {"root", "root+"}

\* Fill bytes of a device that was never formatted.
InitFills == {0}

\* What a read of cluster_map[c] with c outside the map can yield, when it
\* does not fault: a word that ends the walk, or a zero word.
WildWords == {FAT32_FAT_END_OF_FILE, FAT32_FAT_EMPTY_ENTRY}

\* ------------------------------------------------------------ bootstrap
\* is_empty_storage that returns the equality, not the inequality.
is_empty_storage_Inverted(dev) == dev[0].kind = "boot"

\* is_empty_storage: block 0 differs from fs_signature.
is_empty_storage(dev) == dev[0].kind # "boot"

\* create_fat32 whose loop starts at 4: entry 3 keeps what the cache held.
FormattedMap_LoopFromFour ==
    [i \in Clusters |->
        CASE i = 0 -> CLUSTER_0_VALUE
          [] i = 1 -> CLUSTER_1_VALUE
          [] i = ROOT_CLUSTER_NUMBER -> FAT32_FAT_END_OF_FILE
          [] i = 3 -> fat_table[3]
          [] OTHER -> FAT32_FAT_EMPTY_ENTRY]

\* The cluster map create_fat32 builds in the cache.
FormattedMap ==
    [i \in Clusters |->
        CASE i = 0 -> CLUSTER_0_VALUE
          [] i = 1 -> CLUSTER_1_VALUE
          [] i = ROOT_CLUSTER_NUMBER -> FAT32_FAT_END_OF_FILE
          [] OTHER -> FAT32_FAT_EMPTY_ENTRY]

\* create_fat32, on device dev, with rootname the 8 bytes copied as the name.
\* write_blocks(fs_signature, BOOT_SECTOR, 1) replaces block 0 only.
FormattedStorage(dev, rootname) ==
    [c \in Clusters |->
        CASE c = 0 -> BootCluster
          [] c = FAT_CLUSTER_NUMBER -> FatCluster(FormattedMap)
          [] c = ROOT_CLUSTER_NUMBER ->
                DirCluster(init_directory_table(ZeroTable, rootname,
                                                ROOT_CLUSTER_NUMBER))
          [] OTHER -> dev[c]]

Init ==
    /\ \E b \in InitFills : storage = [c \in Clusters |-> DataCluster(b)]
    /\ fat_table = [c \in Clusters |-> 0]
    /\ dir_table_buf = ZeroTable
    /\ booted = FALSE
    /\ halted = FALSE
    /\ last = NoCall
    /\ out_buf = <<>>
    /\ calls = 0
    /\ created = {}

\* initialize_filesystem_fat32, the unformatted branch.
InitializeFormat ==
    /\ ~booted /\ ~halted
    /\ is_empty_storage(storage)
    /\ \E rootname \in RootNames :
          storage' = FormattedStorage(storage, rootname)
    /\ fat_table' = FormattedMap
    /\ booted' = TRUE
    /\ last' = [NoCall EXCEPT !.op = "format"]
    /\ out_buf' = <<>>
    /\ created' = {}
    /\ UNCHANGED <<dir_table_buf, halted, calls>>

\* initialize_filesystem_fat32, the formatted branch: load the FAT.
InitializeLoad ==
    /\ ~booted /\ ~halted
    /\ ~is_empty_storage(storage)
    /\ fat_table' = AsFat(storage[FAT_CLUSTER_NUMBER])
    /\ booted' = TRUE
    /\ last' = [NoCall EXCEPT !.op = "load"]
    /\ out_buf' = <<>>
    /\ UNCHANGED <<storage, dir_table_buf, halted, calls, created>>

\* create_fat32 called on its own, on whatever the device and the cache hold.
Format ==
    /\ ~halted /\ calls < MaxCalls
    /\ calls' = calls + 1
    /\ \E rootname \in RootNames :
          storage' = FormattedStorage(storage, rootname)
    /\ fat_table' = FormattedMap
    /\ last' = [NoCall EXCEPT !.op = "format"]
    /\ out_buf' = <<>>
    /\ created' = {}
    /\ UNCHANGED <<dir_table_buf, booted, halted>>

\* Power cycle: static driver_state = { 0 } again, the device keeps its blocks.
Reboot ==
    /\ booted \/ halted
    /\ fat_table' = [c \in Clusters |-> 0]
    /\ dir_table_buf' = ZeroTable
    /\ booted' = FALSE
    /\ halted' = FALSE
    /\ last' = NoCall
    /\ out_buf' = <<>>
    /\ UNCHANGED <<storage, calls, created>>

\* ------------------------------------------------------- shared CRUD steps
\* A cluster beyond the modelled device: bytes no modelled value equals.
OutOfDevice == DataCluster(255)

\* read_clusters(ptr, c, 1)
ReadCluster(dev, c) == IF c \in Clusters THEN dev[c] ELSE OutOfDevice

\* read_clusters(&driver_state.dir_table_buf, request.parent_cluster_number, 1)
LoadParent(req) == AsTable(ReadCluster(storage, req.parent_cluster_number))

\* The parent check: slot 0 carries ATTR_SUBDIRECTORY.
ParentIsFolder(table) == table[0].attribute = ATTR_SUBDIRECTORY

\* The slots the scan compares: for (i = 0; i < directory_size; i++).
ScanSlots == 0 .. (DirSize - 1)

\* is_name_match && is_ext_match
IsMatch(entry, req) == entry.name = req.name /\ entry.ext = req.ext

Min(S) == CHOOSE x \in S : \A y \in S : x <= y

\* The slots the scan matches; the loop acts on the lowest of them.
Matches(table, req) == {i \in ScanSlots : IsMatch(table[i], req)}

\* int32_t ceil_div(a, b)
ceil_div(a, b) == (a \div b) + (IF a % b # 0 THEN 1 ELSE 0)

\* ----------------------------------------------------------- chain walks
\* The do/while of read: copy cluster c, step to cluster_map[c], until the
\* value stepped to is FAT32_FAT_END_OF_FILE. A cluster number outside the
\* map indexes memory outside cluster_map: the machine faults, or the read
\* yields some word. The result is the set of ways the walk can end.
RECURSIVE ReadChain(_, _, _, _)
ReadChain(dev, fat, c, fuel) ==
    IF fuel = 0 THEN {[end |-> HANG, data |-> <<>>]}
    ELSE IF c \notin Clusters
    THEN {[end |-> FAULT, data |-> <<>>]}
         \cup UNION {IF v = FAT32_FAT_END_OF_FILE
                     THEN {[end |-> "ok", data |-> <<AsData(OutOfDevice)>>]}
                     ELSE {[r EXCEPT !.data = <<AsData(OutOfDevice)>> \o @] :
                              r \in ReadChain(dev, fat, v, fuel - 1)} :
                     v \in WildWords}
    ELSE LET next == fat[c]
             rest == IF next = FAT32_FAT_END_OF_FILE
                     THEN {[end |-> "ok", data |-> <<>>]}
                     ELSE ReadChain(dev, fat, next, fuel - 1)
         IN {[r EXCEPT !.data = <<AsData(dev[c])>> \o @] : r \in rest}

\* The do/while of delete: set cluster_map[c] to FAT32_FAT_EMPTY_ENTRY and
\* step to the value it held, until that value is FAT32_FAT_END_OF_FILE.
RECURSIVE FreeChain(_, _, _)
FreeChain(fat, c, fuel) ==
    IF fuel = 0 THEN {[end |-> HANG, fat |-> fat]}
    ELSE IF c \notin Clusters
    THEN {[end |-> FAULT, fat |-> fat]}
         \cup UNION {IF v = FAT32_FAT_END_OF_FILE
                     THEN {[end |-> "ok", fat |-> fat]}
                     ELSE FreeChain(fat, v, fuel - 1) : v \in WildWords}
    ELSE LET next == fat[c]
             freed == [fat EXCEPT ![c] = FAT32_FAT_EMPTY_ENTRY]
         IN IF next = FAT32_FAT_END_OF_FILE
            THEN {[end |-> "ok", fat |-> freed]}
            ELSE FreeChain(freed, next, fuel - 1)

\* --------------------------------------------------------- read_directory
\* The outcome of read_directory on the loaded parent table: the status and
\* the table left in dir_table_buf.
ReadDirectoryResult(req, table) ==
    IF ~ParentIsFolder(table) THEN [status |-> -1, table |-> table]
    ELSE IF Matches(table, req) = {} THEN [status |-> 2, table |-> table]
    ELSE LET entry == table[Min(Matches(table, req))]
         IN IF entry.attribute # ATTR_SUBDIRECTORY
            THEN [status |-> 1, table |-> table]
            ELSE [status |-> 0,
                  table |-> AsTable(ReadCluster(storage, EntryCluster(entry)))]

ReadDirectory(req) ==
    /\ booted /\ ~halted /\ calls < MaxCalls
    /\ calls' = calls + 1
    /\ LET r == ReadDirectoryResult(req, LoadParent(req))
       IN /\ dir_table_buf' = r.table
          /\ last' = Call("read_directory", req, "ok", r.status)
    /\ out_buf' = <<>>
    /\ UNCHANGED <<storage, fat_table, booted, halted, created>>

\* ------------------------------------------------------------------- read
\* read that copies the first cluster before it compares the sizes.
ReadResult_CopyFirst(req, table) ==
    IF ~ParentIsFolder(table)
    THEN {[end |-> "ok", status |-> -1, data |-> <<>>]}
    ELSE IF Matches(table, req) = {}
    THEN {[end |-> "ok", status |-> 3, data |-> <<>>]}
    ELSE LET entry == table[Min(Matches(table, req))]
         IN IF entry.attribute = ATTR_SUBDIRECTORY
            THEN {[end |-> "ok", status |-> 1, data |-> <<>>]}
            ELSE IF ~(req.buffer_size >= entry.filesize)
            THEN {[end |-> "ok", status |-> 2,
                   data |-> <<AsData(ReadCluster(storage,
                                                 EntryCluster(entry)))>>]}
            ELSE {[end |-> w.end, status |-> 0, data |-> w.data] :
                    w \in ReadChain(storage, fat_table, EntryCluster(entry),
                                    MaxWalk)}

\* The outcomes of read on the loaded parent table: how the call ends, the
\* status, and the clusters copied into the caller's buffer.
ReadResult(req, table) ==
    IF ~ParentIsFolder(table)
    THEN {[end |-> "ok", status |-> -1, data |-> <<>>]}
    ELSE IF Matches(table, req) = {}
    THEN {[end |-> "ok", status |-> 3, data |-> <<>>]}
    ELSE LET entry == table[Min(Matches(table, req))]
         IN IF entry.attribute = ATTR_SUBDIRECTORY
            THEN {[end |-> "ok", status |-> 1, data |-> <<>>]}
            ELSE IF ~(req.buffer_size >= entry.filesize)
            THEN {[end |-> "ok", status |-> 2, data |-> <<>>]}
            ELSE {[end |-> w.end, status |-> 0, data |-> w.data] :
                    w \in ReadChain(storage, fat_table, EntryCluster(entry),
                                    MaxWalk)}

Read(req) ==
    /\ booted /\ ~halted /\ calls < MaxCalls
    /\ calls' = calls + 1
    /\ \E r \in ReadResult(req, LoadParent(req)) :
          /\ last' = Call("read", req, r.end, r.status)
          /\ out_buf' = r.data
          /\ halted' = (r.end # "ok")
    /\ dir_table_buf' = LoadParent(req)
    /\ UNCHANGED <<storage, fat_table, booted, created>>

\* ------------------------------------------------------------------ write
\* The count loop: entries 2..CLUSTER_MAP_SIZE-1 that are empty.
cluster_available(fat) ==
    Cardinality({i \in 2 .. (MapSize - 1) : fat[i] = FAT32_FAT_EMPTY_ENTRY})

\* The search loop: the lowest empty entry from 2 on; 0 when there is none.
empty_cluster(fat) ==
    LET free == {i \in 2 .. (MapSize - 1) : fat[i] = FAT32_FAT_EMPTY_ENTRY}
    IN IF free = {} THEN 0 ELSE Min(free)

RECURSIVE Ascending(_)
Ascending(S) == IF S = {} THEN <<>> ELSE <<Min(S)>> \o Ascending(S \ {Min(S)})

\* uint32_t empty_clusters[CLUSTER_MAP_SIZE] = { 0 }, filled by the scan
\* from 0 on; element i of the array is empty_clusters(fat)[i + 1].
empty_clusters(fat) ==
    LET found == Ascending({i \in 0 .. (MapSize - 1) :
                               fat[i] = FAT32_FAT_EMPTY_ENTRY})
    IN [i \in 1 .. MapSize |-> IF i <= Len(found) THEN found[i] ELSE 0]

\* struct FAT32DirectoryEntry new_entry, before its attribute is set.
new_entry(req, first) ==
    Entry(req.name, req.ext, 0, UATTR_NOT_EMPTY,
          first % 65536, (first \div 65536) % 65536, req.buffer_size)

\* The folder branch: claim empty_cluster and write the new table there.
WriteFolder(req, dev, fat) ==
    LET c == empty_cluster(fat)
        new_dir_table == init_directory_table(ZeroTable, req.name,
                                              req.parent_cluster_number)
    IN [fat |-> [fat EXCEPT ![c] = FAT32_FAT_END_OF_FILE],
        dev |-> [dev EXCEPT ![c] = DirCluster(new_dir_table)]]

\* The file branch, iterations i .. cluster_count-1 of the chaining loop.
RECURSIVE WriteFileLoop(_, _, _, _, _, _)
WriteFileLoop(req, ec, i, cluster_count, dev, fat) ==
    IF i >= cluster_count THEN [fat |-> fat, dev |-> dev]
    ELSE LET cluster_number == ec[i + 1]
             link == IF i = cluster_count - 1 THEN FAT32_FAT_END_OF_FILE
                     ELSE ec[i + 2]
         IN WriteFileLoop(req, ec, i + 1, cluster_count,
               [dev EXCEPT ![cluster_number] = DataCluster(req.buf[i + 1])],
               [fat EXCEPT ![cluster_number] = link])

WriteFile(req, dev, fat) ==
    WriteFileLoop(req, empty_clusters(fat), 0,
                  ceil_div(req.buffer_size, ClusterSize), dev, fat)

\* driver_state.dir_table_buf.table[directory_size] = new_entry: the index is
\* one past the last slot, so the store lands in the bytes that follow the
\* table in driver_state (or the build drops it) and no slot of the table
\* takes the entry. This is the table the call then persists.
StoreEntry(table, entry) == table

\* The entry as the store leaves it: attribute set in the folder branch.
FinalEntry(req, fat) ==
    [new_entry(req, empty_cluster(fat)) EXCEPT
        !.attribute = IF req.buffer_size = 0 THEN ATTR_SUBDIRECTORY ELSE 0]

\* write without the final write_clusters of the FAT.
WriteResult_NoFatFlush(req, table, dev, fat) ==
    IF ~ParentIsFolder(table)
    THEN [status |-> -1, dev |-> dev, fat |-> fat, table |-> table]
    ELSE IF Matches(table, req) # {}
    THEN [status |-> 1, dev |-> dev, fat |-> fat, table |-> table]
    ELSE IF cluster_available(fat) < ceil_div(req.buffer_size, ClusterSize)
    THEN [status |-> -1, dev |-> dev, fat |-> fat, table |-> table]
    ELSE LET body == IF req.buffer_size = 0 THEN WriteFolder(req, dev, fat)
                     ELSE WriteFile(req, dev, fat)
             stored == StoreEntry(table, FinalEntry(req, fat))
             dev2 == [body.dev EXCEPT
                         ![req.parent_cluster_number] = DirCluster(stored)]
         IN [status |-> 0, dev |-> dev2, fat |-> body.fat, table |-> stored]

\* write that marks the first empty cluster before it counts the free ones.
WriteResult_ClaimFirst(req, table, dev, fat) ==
    IF ~ParentIsFolder(table)
    THEN [status |-> -1, dev |-> dev, fat |-> fat, table |-> table]
    ELSE IF Matches(table, req) # {}
    THEN [status |-> 1, dev |-> dev, fat |-> fat, table |-> table]
    ELSE IF cluster_available(fat) < ceil_div(req.buffer_size, ClusterSize)
    THEN [status |-> -1, dev |-> dev,
          fat |-> [fat EXCEPT ![empty_cluster(fat)] = FAT32_FAT_END_OF_FILE],
          table |-> table]
    ELSE LET body == IF req.buffer_size = 0 THEN WriteFolder(req, dev, fat)
                     ELSE WriteFile(req, dev, fat)
             stored == StoreEntry(table, FinalEntry(req, fat))
             dev2 == [body.dev EXCEPT
                         ![req.parent_cluster_number] = DirCluster(stored)]
             dev3 == [dev2 EXCEPT
                         ![FAT_CLUSTER_NUMBER] = FatCluster(body.fat)]
         IN [status |-> 0, dev |-> dev3, fat |-> body.fat, table |-> stored]

\* The outcome of write on the loaded parent table, device dev and map fat.
WriteResult(req, table, dev, fat) ==
    IF ~ParentIsFolder(table)
    THEN [status |-> -1, dev |-> dev, fat |-> fat, table |-> table]
    ELSE IF Matches(table, req) # {}
    THEN [status |-> 1, dev |-> dev, fat |-> fat, table |-> table]
    ELSE IF cluster_available(fat) < ceil_div(req.buffer_size, ClusterSize)
    THEN [status |-> -1, dev |-> dev, fat |-> fat, table |-> table]
    ELSE LET body == IF req.buffer_size = 0 THEN WriteFolder(req, dev, fat)
                     ELSE WriteFile(req, dev, fat)
             stored == StoreEntry(table, FinalEntry(req, fat))
             dev2 == [body.dev EXCEPT
                         ![req.parent_cluster_number] = DirCluster(stored)]
             dev3 == [dev2 EXCEPT
                         ![FAT_CLUSTER_NUMBER] = FatCluster(body.fat)]
         IN [status |-> 0, dev |-> dev3, fat |-> body.fat, table |-> stored]

\* The first cluster a write that returns 0 claims: empty_cluster for a
\* folder, empty_clusters[0] for a file.
FirstClaimed(req, fat) ==
    IF req.buffer_size = 0 THEN empty_cluster(fat) ELSE empty_clusters(fat)[1]

\* History records: a write that returned 0, and whether a record is of the
\* key and parent of a request.
Made(req, c) ==
    [parent |-> req.parent_cluster_number, name |-> req.name, ext |-> req.ext,
     size |-> req.buffer_size, cluster |-> c]

SameKey(m, req) ==
    /\ m.parent = req.parent_cluster_number
    /\ m.name = req.name
    /\ m.ext = req.ext

Write(req) ==
    /\ booted /\ ~halted /\ calls < MaxCalls
    /\ calls' = calls + 1
    /\ LET r == WriteResult(req, LoadParent(req), storage, fat_table)
       IN /\ storage' = r.dev
          /\ fat_table' = r.fat
          /\ dir_table_buf' = r.table
          /\ last' = Call("write", req, "ok", r.status)
          /\ created' = IF r.status = 0
                        THEN created \cup {Made(req, FirstClaimed(req, fat_table))}
                        ELSE created
    /\ out_buf' = <<>>
    /\ UNCHANGED <<booted, halted>>

\* ----------------------------------------------------------------- delete
\* The emptiness check of delete on a matched folder entry: slots
\* 1..directory_size-1 of the folder's own table.
FolderOccupied(entry, dev) ==
    /\ entry.attribute = ATTR_SUBDIRECTORY
    /\ \E j \in 1 .. (DirSize - 1) :
          AsTable(ReadCluster(dev, EntryCluster(entry)))[j].user_attribute
             = UATTR_NOT_EMPTY

\* Remove entry: the occupancy flag cleared, name and extension zeroed.
Tombstone(table, i) ==
    [table EXCEPT ![i] = [@ EXCEPT !.user_attribute = 0,
                                   !.name = ZeroName,
                                   !.ext = ZeroExt]]

\* The outcomes of delete on the loaded parent table, device dev and map fat.
DeleteResult(req, table, dev, fat) ==
    IF ~ParentIsFolder(table)
    THEN {[end |-> "ok", status |-> -1, dev |-> dev, fat |-> fat,
           table |-> table]}
    ELSE IF Matches(table, req) = {}
    THEN {[end |-> "ok", status |-> 1, dev |-> dev, fat |-> fat,
           table |-> table]}
    ELSE LET i == Min(Matches(table, req))
             entry == table[i]
             removed == Tombstone(table, i)
         IN IF FolderOccupied(entry, dev)
            THEN {[end |-> "ok", status |-> 2, dev |-> dev, fat |-> fat,
                   table |-> table]}
            ELSE {IF w.end = "ok"
                  THEN [end |-> "ok", status |-> 0,
                        dev |-> [[dev EXCEPT ![req.parent_cluster_number] =
                                                DirCluster(removed)]
                                    EXCEPT ![FAT_CLUSTER_NUMBER] =
                                                FatCluster(w.fat)],
                        fat |-> w.fat, table |-> removed]
                  ELSE [end |-> w.end, status |-> 0, dev |-> dev,
                        fat |-> w.fat, table |-> removed] :
                    w \in FreeChain(fat, EntryCluster(entry), MaxWalk)}

Delete(req) ==
    /\ booted /\ ~halted /\ calls < MaxCalls
    /\ calls' = calls + 1
    /\ \E r \in DeleteResult(req, LoadParent(req), storage, fat_table) :
          /\ storage' = r.dev
          /\ fat_table' = r.fat
          /\ dir_table_buf' = r.table
          /\ halted' = (r.end # "ok")
          /\ last' = Call("delete", req, r.end, r.status)
          /\ created' = IF r.end = "ok" /\ r.status = 0
                        THEN {m \in created : ~SameKey(m, req)}
                        ELSE created
    /\ out_buf' = <<>>
    /\ UNCHANGED booted

\* ------------------------------------------------------------ the requests
\* The parent cluster numbers calls are made with: the boot cluster, the FAT
\* cluster, the root, and the first cluster a write can claim.
Parents == {0, FAT_CLUSTER_NUMBER, ROOT_CLUSTER_NUMBER, 3}

\* The buffers write is called with, as cluster-sized chunks: ImageChunk,
\* and chunk b for a cluster filled with byte b.
Bufs == {<<ImageChunk, 2>>}

\* read_directory and delete do not use buffer_size.
KeyRequests ==
    {Request(k[1], k[2], p, 0, <<>>) : k \in Keys, p \in Parents}

\* read: buffer_size is the capacity of the caller's buffer.
ReadRequests ==
    {Request(k[1], k[2], p, z, <<>>) :
        k \in Keys, p \in Parents, z \in {0, MaxSize}}

\* write: a folder (size 0), a file of one byte, a file of MaxSize bytes.
WriteRequests ==
    {Request(k[1], k[2], p, 0, <<>>) : k \in Keys, p \in Parents}
    \cup {Request(k[1], k[2], p, z, b) :
            k \in Keys, p \in Parents, z \in {1, MaxSize}, b \in Bufs}

Next ==
    \/ InitializeFormat
    \/ InitializeLoad
    \/ Format
    \/ Reboot
    \/ \E req \in KeyRequests : ReadDirectory(req)
    \/ \E req \in ReadRequests : Read(req)
    \/ \E req \in WriteRequests : Write(req)
    \/ \E req \in KeyRequests : Delete(req)

Spec == Init /\ [][Next]_vars

\* ================================================================ claims
CrudOps == {"read_directory", "read", "write", "delete"}

\* A CRUD call was just made: the step is one of the four operations.
IsCall == calls' = calls + 1 /\ last'.op \in CrudOps

\* The call just made returned status st.
Returns(st) == last'.end = "ok" /\ last'.status = st

\* The call just made has the key and parent of history record m.
CallOfKey(m) ==
    /\ last'.parent = m.parent
    /\ last'.name = m.name
    /\ last'.ext = m.ext

\* The FAT persisted at cluster 1.
PersistedFat(dev) == AsFat(dev[FAT_CLUSTER_NUMBER])

\* Clusters a write of `size` bytes consumes: one for a folder.
Needed(size) == IF size = 0 THEN 1 ELSE ceil_div(size, ClusterSize)

\* The first n cluster-sized chunks of a buffer.
FirstChunks(buf, n) == [i \in 1 .. n |-> buf[i]]

\* C1: a write of a non-empty payload B that returned 0, followed by a read
\* of the same key and parent with capacity >= |B|, makes the read return 0
\* with the first |B| bytes of the buffer equal to B.
C1_RoundTrip ==
    [][(/\ IsCall
        /\ last.op = "write" /\ last.end = "ok" /\ last.status = 0
        /\ last.size > 0
        /\ last'.op = "read"
        /\ last'.parent = last.parent
        /\ last'.name = last.name /\ last'.ext = last.ext
        /\ last'.size >= last.size)
       => (/\ Returns(0)
           /\ Len(out_buf') >= Needed(last.size)
           /\ FirstChunks(out_buf', Needed(last.size))
                 = FirstChunks(last.buf, Needed(last.size)))]_vars

\* C2: once a write of a key under a parent has returned 0 (and the key was
\* not deleted since), every write of that key under that parent returns 1
\* and leaves the persisted parent table, the persisted FAT and the cached
\* FAT as they were.
C2_SecondWriteAlreadyExists ==
    [][(/\ IsCall
        /\ last'.op = "write"
        /\ \E m \in created : CallOfKey(m))
       => (/\ Returns(1)
           /\ storage'[last'.parent] = storage[last'.parent]
           /\ PersistedFat(storage') = PersistedFat(storage)
           /\ fat_table' = fat_table)]_vars

\* The clusters the FAT links from c on, c included.
RECURSIVE ChainOf(_, _, _)
ChainOf(fat, c, fuel) ==
    IF fuel = 0 \/ c \notin Clusters THEN {}
    ELSE {c} \cup (IF fat[c] = FAT32_FAT_END_OF_FILE THEN {}
                   ELSE ChainOf(fat, fat[c], fuel - 1))

\* The links from c on stay on allocated clusters 2..MapSize-1 and reach an
\* end-of-chain entry without passing a cluster twice.
RECURSIVE EndsInEOF(_, _, _)
EndsInEOF(fat, c, fuel) ==
    /\ fuel > 0
    /\ c \in 2 .. (MapSize - 1)
    /\ fat[c] # FAT32_FAT_EMPTY_ENTRY
    /\ (fat[c] = FAT32_FAT_END_OF_FILE \/ EndsInEOF(fat, fat[c], fuel - 1))

\* The occupied user entries of the allocated directory tables of the device.
OccupiedEntries ==
    {pe \in Clusters \X (1 .. (DirSize - 1)) :
        /\ storage[pe[1]].kind = "dir"
        /\ pe[1] >= 2 /\ fat_table[pe[1]] # FAT32_FAT_EMPTY_ENTRY
        /\ storage[pe[1]].table[pe[2]].user_attribute = UATTR_NOT_EMPTY}

\* The occupied entries whose chain holds cluster c.
OwnersOf(c) ==
    {pe \in OccupiedEntries :
        c \in ChainOf(fat_table,
                      EntryCluster(storage[pe[1]].table[pe[2]]), MapSize)}

\* C3: between calls, every allocated cluster from 2 on lies on a chain that
\* ends in end-of-chain, has at most one predecessor, and is owned by
\* exactly one occupied directory entry (by none when it is the root's).
C3_NoOrphanCluster ==
    (booted /\ ~halted) =>
        \A c \in 2 .. (MapSize - 1) :
            fat_table[c] # FAT32_FAT_EMPTY_ENTRY =>
                /\ EndsInEOF(fat_table, c, MapSize)
                /\ Cardinality({d \in Clusters : fat_table[d] = c}) <= 1
                /\ Cardinality(OwnersOf(c))
                      = (IF c = ROOT_CLUSTER_NUMBER THEN 0 ELSE 1)

\* The FAT entries of clusters 0 and 1 hold their reserved values, the entry
\* of the root cluster is end-of-chain, and cluster 0 holds the boot block.
ReservedKept(dev, fat) ==
    /\ fat[0] = CLUSTER_0_VALUE
    /\ fat[1] = CLUSTER_1_VALUE
    /\ fat[ROOT_CLUSTER_NUMBER] = FAT32_FAT_END_OF_FILE
    /\ dev[0] = BootCluster

\* C4 (the part about write): a write made while the reserved entries and
\* the boot cluster are intact leaves them intact: it claims none of the
\* clusters 0, 1, 2 and writes nothing into cluster 0.
C4_WriteKeepsReserved ==
    [][(IsCall /\ last'.op = "write" /\ ReservedKept(storage, fat_table))
       => ReservedKept(storage', fat_table')]_vars

\* C5: when a CRUD call has returned 0, the FAT persisted at cluster 1 equals
\* the cached FAT, entry for entry.
C5_FatWriteThrough ==
    (last.op \in CrudOps /\ last.end = "ok" /\ last.status = 0) =>
        /\ storage[FAT_CLUSTER_NUMBER].kind = "fat"
        /\ \A c \in Clusters : PersistedFat(storage)[c] = fat_table[c]

\* C5 witness: a write of a two-cluster file has returned 0 and its chain is
\* in the cache.
C5_Witness ==
    /\ last.op = "write" /\ last.end = "ok" /\ last.status = 0
    /\ Needed(last.size) = 2
    /\ fat_table[3] = 4
    /\ fat_table[4] = FAT32_FAT_END_OF_FILE

\* C6: a CRUD call that returns a non-zero status leaves every cluster of the
\* device and every entry of the cached FAT as they were.
C6_FailureChangesNothing ==
    [][(IsCall /\ last'.end = "ok" /\ last'.status # 0)
       => (storage' = storage /\ fat_table' = fat_table)]_vars

\* C6 witness: a write under a valid parent, of a key not in it, was rejected
\* for lack of space while a cluster was still free to be claimed.
C6_Witness ==
    /\ last.op = "write" /\ last.end = "ok" /\ last.status = -1
    /\ ParentIsFolder(AsTable(storage[last.parent]))
    /\ cluster_available(fat_table) = 1
    /\ Needed(last.size) = 2

\* C7 (first half, on which the second rests): delete of a key created as a
\* file and not deleted since returns 0 and sets the FAT entry of the file's
\* clusters to Free.
C7_DeleteFreesFile ==
    [][(/\ IsCall
        /\ last'.op = "delete"
        /\ \E m \in created : CallOfKey(m) /\ m.size > 0)
       => (/\ Returns(0)
           /\ \A m \in created :
                 (CallOfKey(m) /\ m.size > 0) =>
                     fat_table'[m.cluster] = FAT32_FAT_EMPTY_ENTRY)]_vars

\* C8: delete of a directory created under a parent, while a key written
\* under that directory has not been deleted, returns 2 and changes neither
\* the device nor the cached FAT.
C8_DeleteNonEmptyDirectory ==
    [][(/\ IsCall
        /\ last'.op = "delete"
        /\ \E d \in created :
              /\ CallOfKey(d) /\ d.size = 0
              /\ \E x \in created : x.parent = d.cluster)
       => (/\ Returns(2)
           /\ storage' = storage
           /\ fat_table' = fat_table)]_vars

\* C9: a write with size 0 that returns 0 claims exactly one cluster c that
\* was Free, marks it end-of-chain, persists at c a table whose slot 0 is a
\* subdirectory with the call's parent as back-reference, and leaves in the
\* parent's persisted table an occupied subdirectory entry for the key, with
\* starting cluster c and size 0.
C9_CreateDirectory ==
    [][(IsCall /\ last'.op = "write" /\ last'.size = 0 /\ Returns(0))
       => \E c \in Clusters :
             /\ fat_table[c] = FAT32_FAT_EMPTY_ENTRY
             /\ fat_table' = [fat_table EXCEPT ![c] = FAT32_FAT_END_OF_FILE]
             /\ AsTable(storage'[c])[0].attribute = ATTR_SUBDIRECTORY
             /\ EntryCluster(AsTable(storage'[c])[0]) = last'.parent
             /\ \E i \in 1 .. (DirSize - 1) :
                   LET e == AsTable(storage'[last'.parent])[i]
                   IN /\ e.name = last'.name /\ e.ext = last'.ext
                      /\ e.user_attribute = UATTR_NOT_EMPTY
                      /\ e.attribute = ATTR_SUBDIRECTORY
                      /\ EntryCluster(e) = c
                      /\ e.filesize = 0]_vars

\* C10: a write under a valid parent, of a key no slot of it holds, that would consume
\* more clusters than are Free in the cache (one for a folder) returns -1
\* and claims no cluster.
C10_InsufficientSpace ==
    [][(/\ IsCall
        /\ last'.op = "write"
        /\ ParentIsFolder(AsTable(storage[last'.parent]))
        /\ \A i \in Slots :
              LET e == AsTable(storage[last'.parent])[i]
              IN ~(e.name = last'.name /\ e.ext = last'.ext)
        /\ Needed(last'.size) > cluster_available(fat_table))
       => (Returns(-1) /\ fat_table' = fat_table)]_vars

\* The parent's table as the call just made found it on the device.
ParentTable == AsTable(storage[last'.parent])

\* The request key of the call just made is the name and extension of e.
HoldsKey(e) == e.name = last'.name /\ e.ext = last'.ext

\* The call just made answered as when the scan finds no match: lookup
\* returns 2, read 3, delete 1, and write does not return 1.
TreatedAsNoMatch ==
    /\ last'.end = "ok"
    /\ CASE last'.op = "read_directory" -> last'.status = 2
         [] last'.op = "read" -> last'.status = 3
         [] last'.op = "delete" -> last'.status = 1
         [] OTHER -> last'.status # 1

\* C11: a CRUD call under a valid parent whose key is the name and extension
\* stored in slot 0 of the parent's table, while no slot 1..N holds that key,
\* is answered as having no match.
C11_SlotZeroNeverMatches ==
    [][(/\ IsCall
        /\ ParentIsFolder(ParentTable)
        /\ HoldsKey(ParentTable[0])
        /\ \A i \in 1 .. (DirSize - 1) : ~HoldsKey(ParentTable[i]))
       => TreatedAsNoMatch]_vars

\* The k-th cluster of the chain the FAT links from c (the first is c).
RECURSIVE NthOfChain(_, _, _)
NthOfChain(fat, c, k) ==
    IF k <= 1 \/ c \notin Clusters THEN c
    ELSE NthOfChain(fat, fat[c], k - 1)

\* The occupied file entries of slots 1..N of the parent's table that hold
\* the key of the call just made, with a size that is not a whole number of
\* clusters.
FileSlots ==
    {i \in 1 .. (DirSize - 1) :
        /\ HoldsKey(ParentTable[i])
        /\ ParentTable[i].user_attribute = UATTR_NOT_EMPTY
        /\ ParentTable[i].attribute # ATTR_SUBDIRECTORY
        /\ ParentTable[i].filesize % ClusterSize # 0}

\* C12: a read that returns 0 for a file entry whose size lies strictly
\* between (N-1)*ClusterSize and N*ClusterSize copies exactly N clusters:
\* the first N clusters of the chain from the entry's starting cluster, in
\* chain order, the FAT entry of the N-th being end-of-chain.
C12_ReadCopiesCeilClusters ==
    [][(/\ IsCall
        /\ last'.op = "read"
        /\ Returns(0)
        /\ ParentIsFolder(ParentTable)
        /\ FileSlots # {})
       => LET e == ParentTable[Min(FileSlots)]
              N == ceil_div(e.filesize, ClusterSize)
          IN /\ Len(out_buf') = N
             /\ \A k \in 1 .. N :
                   /\ NthOfChain(fat_table, EntryCluster(e), k) \in Clusters
                   /\ out_buf'[k] =
                         AsData(storage[NthOfChain(fat_table,
                                                   EntryCluster(e), k)])
             /\ fat_table[NthOfChain(fat_table, EntryCluster(e), N)]
                   = FAT32_FAT_END_OF_FILE]_vars

\* The slots of the parent's table whose name and extension are the key of
\* the call just made.
KeySlots == {i \in Slots : HoldsKey(ParentTable[i])}

\* The call just made returned status st and copied nothing.
Rejects(st) == Returns(st) /\ out_buf' = <<>>

\* C13: read returns -1 when slot 0 of the parent cluster is not
\* SUBDIRECTORY, 3 when no slot matches the key, 1 when the matched entry
\* (the first match) is a directory, 2 when it is a file and buffer_size is
\* less than its filesize; in each case no cluster is copied into the
\* caller's buffer.
C13_ReadRejects ==
    [][(IsCall /\ last'.op = "read")
       => IF ~ParentIsFolder(ParentTable) THEN Rejects(-1)
          ELSE IF KeySlots = {} THEN Rejects(3)
          ELSE IF ParentTable[Min(KeySlots)].attribute = ATTR_SUBDIRECTORY
          THEN Rejects(1)
          ELSE (last'.size < ParentTable[Min(KeySlots)].filesize)
                  => Rejects(2)]_vars

\* C13 witness: a read with capacity filesize - 1 of an occupied file entry
\* was rejected with status 2.
C13_Witness ==
    /\ last.op = "read" /\ last.end = "ok" /\ last.status = 2
    /\ out_buf = <<>>
    /\ \E i \in 1 .. (DirSize - 1) :
          LET e == AsTable(storage[last.parent])[i]
          IN /\ e.name = last.name /\ e.ext = last.ext
             /\ e.user_attribute = UATTR_NOT_EMPTY
             /\ e.attribute # ATTR_SUBDIRECTORY
             /\ last.size = e.filesize - 1

\* The occupied entries of slots 1..N of the parent's table that hold the
\* key of the call just made.
OccupiedKeySlots ==
    {i \in 1 .. (DirSize - 1) :
        /\ HoldsKey(ParentTable[i])
        /\ ParentTable[i].user_attribute = UATTR_NOT_EMPTY}

\* C14: read_directory changes neither the device nor the cached FAT, and
\* returns -1 exactly when slot 0 of the parent cluster is not SUBDIRECTORY,
\* 0 exactly when the key is of a directory created under the parent and not
\* deleted since (dir_table_buf then holds the table at that directory's
\* cluster), 1 exactly when a file entry of the parent holds the key, and 2
\* exactly when the parent is valid and no entry of it holds the key.
C14_LookupDirectory ==
    [][(IsCall /\ last'.op = "read_directory")
       => /\ storage' = storage
          /\ fat_table' = fat_table
          /\ Returns(-1) <=> ~ParentIsFolder(ParentTable)
          /\ Returns(0) <=>
                (/\ ParentIsFolder(ParentTable)
                 /\ \E m \in created :
                       /\ CallOfKey(m) /\ m.size = 0
                       /\ dir_table_buf' = AsTable(storage[m.cluster]))
          /\ Returns(1) <=>
                (/\ ParentIsFolder(ParentTable)
                 /\ \E i \in OccupiedKeySlots :
                       ParentTable[i].attribute # ATTR_SUBDIRECTORY)
          /\ Returns(2) <=>
                (ParentIsFolder(ParentTable) /\ OccupiedKeySlots = {})]_vars

\* The step is a run of initialize_filesystem_fat32.
InitializeStep == ~booted /\ booted'

\* The step is a run of create_fat32, on its own or inside initialize.
FormatStep == last'.op = "format"

\* C15: the formatted check reports unformatted exactly while block 0
\* differs from the signature; on such a device, format and initialize leave
\* a device the check reports formatted; and initialize on a formatted
\* device writes nothing and leaves the cached FAT equal to the FAT
\* persisted at cluster 1.
C15_FormattedCheck ==
    [][/\ is_empty_storage(storage) <=> (storage[0] # BootCluster)
       /\ ((InitializeStep \/ FormatStep) /\ storage[0] # BootCluster)
             => (storage'[0] = BootCluster /\ ~is_empty_storage(storage'))
       /\ (InitializeStep /\ storage[0] = BootCluster)
             => (/\ storage' = storage
                 /\ \A c \in Clusters :
                       fat_table'[c] = PersistedFat(storage')[c])]_vars

\* C15 witness: initialize has just loaded, from a formatted device, a FAT
\* that holds a two-cluster chain.
C15_Witness ==
    /\ booted /\ last.op = "load"
    /\ storage[0] = BootCluster
    /\ fat_table[3] = 4
    /\ fat_table[4] = FAT32_FAT_END_OF_FILE

\* The clusters of the pool (2 and up) whose FAT entry is Free before the
\* call, in ascending order.
FreeBefore ==
    Ascending({c \in 2 .. (MapSize - 1) :
                  fat_table[c] = FAT32_FAT_EMPTY_ENTRY})

\* The request of the call just made.
LastRequest ==
    Request(last'.name, last'.ext, last'.parent, last'.size, last'.buf)

\* C16: a write of a file that returns 0 and needs k clusters claims the k
\* lowest-numbered Free clusters c1 < ... < ck: afterwards FAT[ci] = c(i+1)
\* for i < k, FAT[ck] is end-of-chain, cluster ci holds the i-th slice of
\* the payload, the entry the call builds starts at c1, and every other FAT
\* entry is unchanged.
C16_FirstFitAllocation ==
    [][(IsCall /\ last'.op = "write" /\ last'.size > 0 /\ Returns(0))
       => LET k == ceil_div(last'.size, ClusterSize)
              c == FreeBefore
          IN /\ Len(c) >= k
             /\ \A i \in 1 .. k :
                   /\ fat_table'[c[i]] = (IF i < k THEN c[i + 1]
                                          ELSE FAT32_FAT_END_OF_FILE)
                   /\ AsData(storage'[c[i]]) = last'.buf[i]
             /\ EntryCluster(FinalEntry(LastRequest, fat_table)) = c[1]
             /\ \A d \in Clusters \ {c[i] : i \in 1 .. k} :
                   fat_table'[d] = fat_table[d]]_vars

\* C17: a write that returns 0 leaves the table persisted at the parent's
\* cluster with the new entry (occupied, with the request's key and size) in
\* one slot i of 1..N that lies after every slot populated before the call,
\* and with every other slot as it was.
C17_EntryAppendedInTable ==
    [][(IsCall /\ last'.op = "write" /\ Returns(0))
       => LET before == ParentTable
              after == AsTable(storage'[last'.parent])
          IN \E i \in 1 .. (DirSize - 1) :
                /\ \A j \in 1 .. (DirSize - 1) :
                      before[j].user_attribute = UATTR_NOT_EMPTY => j < i
                /\ HoldsKey(after[i])
                /\ after[i].user_attribute = UATTR_NOT_EMPTY
                /\ after[i].filesize = last'.size
                /\ \A j \in Slots \ {i} : after[j] = before[j]]_vars

\* The cluster map has entries 0 and 1 at their reserved values, the root's
\* entry end-of-chain and every entry from 3 on Free.
FreshMap(map) ==
    /\ map[0] = CLUSTER_0_VALUE
    /\ map[1] = CLUSTER_1_VALUE
    /\ map[ROOT_CLUSTER_NUMBER] = FAT32_FAT_END_OF_FILE
    /\ \A c \in 3 .. (MapSize - 1) : map[c] = FAT32_FAT_EMPTY_ENTRY

C19_EmptySlotNeverMatches ==
    [][(/\ IsCall
        /\ ParentIsFolder(ParentTable)
        /\ \A i \in Slots :
              HoldsKey(ParentTable[i])
                 => ParentTable[i].user_attribute # UATTR_NOT_EMPTY
        /\ \E i \in 1 .. (DirSize - 1) : HoldsKey(ParentTable[i]))
       => TreatedAsNoMatch]_vars

\* The entry the scan of the call just made stops at.
FirstMatch == ParentTable[Min(KeySlots)]

\* The call just made walks a chain: a read that passes the kind and size
\* checks, or a delete that passes the emptiness check.
WalksChain ==
    /\ ParentIsFolder(ParentTable)
    /\ KeySlots # {}
    /\ \/ /\ last'.op = "read"
          /\ FirstMatch.attribute # ATTR_SUBDIRECTORY
          /\ last'.size >= FirstMatch.filesize
       \/ /\ last'.op = "delete"
          /\ ~FolderOccupied(FirstMatch, storage)

\* C20: every read and every delete call returns, and the chain it walks
\* starts at a cluster of 2..MapSize-1 and follows allocated entries of
\* 2..MapSize-1 to end-of-chain within MapSize steps.
C20_WalksTerminate ==
    [][(IsCall /\ last'.op \in {"read", "delete"})
       => /\ last'.end = "ok"
          /\ WalksChain
                => EndsInEOF(fat_table, EntryCluster(FirstMatch), MapSize)]_vars
====
